---------------------------- MODULE Spec2Model ----------------------------
(***************************************************************************)
(* Model of the integrated arbitrage bot (src/python).                     *)
(*                                                                         *)
(* Amounts are in units of 10^14 wei, so that 1 ETH = 10000 and the        *)
(* 10^15 wei execution threshold = 10; prices are whole numbers of token_b *)
(* per token_a.  Python floats are read as exact rationals and every       *)
(* comparison of a quotient is cross-multiplied.                           *)
(*                                                                         *)
(* Calls that leave the process (router quotes, gas price, the contract's  *)
(* check / balance / execute functions) are inputs: each call draws its    *)
(* outcome, a value or an exception.  Two names the shipped modules use    *)
(* but never bind belong to the exception outcomes:                        *)
(*   - UNISWAP_ROUTER_ABI (arbitrage_monitor.py:265) raises NameError      *)
(*     inside the try of get_current_prices, which is the quote-failure    *)
(*     path returning (0.0, 0.0);                                          *)
(*   - datetime (integrated_arbitrage_bot.py:139) raises NameError in      *)
(*     execute_opportunity, which escapes to run_bot's handler.            *)
(* The model keeps both the raising and the non-raising outcome of these   *)
(* lines, so every property is checked for the modules as shipped and for  *)
(* modules in which the two names are bound.                               *)
(*                                                                         *)
(* run_bot is one coroutine.  stop_bot can run only while it is suspended  *)
(* in asyncio.sleep (or before it starts); the user's interrupt can reach  *)
(* it at any point of its try block.  A submission is in flight from the   *)
(* moment execute_arbitrage has sent its transaction until the call        *)
(* returns.                                                                *)
(***************************************************************************)
EXTENDS Integers, Naturals, Sequences, FiniteSets, TLC

(***************************************************************************)
(* Bounds of the model                                                     *)
(***************************************************************************)
MaxPairs == 2

MaxCycles == 2

(***************************************************************************)
(* Program constants (scaled to units of 10^14 wei)                        *)
(***************************************************************************)
AmountIn == 10000

ExecuteThreshold == 10

GasCostPerGwei == 2

ToleranceDen == 10

MinProfitThreshold == 10

MinLiquidity == 10000

ProfitScoreCap == 100

\* confidence scores are numerators over ConfidenceDen
ConfidenceDen == 10 * MinLiquidity * ProfitScoreCap

MonitorConfidence == 9 * MinLiquidity * ProfitScoreCap

(***************************************************************************)
(* Input domains                                                           *)
(***************************************************************************)
PriceValues == {0, 2000, 2030}

GasPrices == {1, 70, 72, 75}

ContractProfits == {135, 136, 170}

BalanceValues == {5000, 10000}

MainTokenPairs == << <<"WETH", "USDC">>, <<"WETH", "USDT">>, <<"USDC", "USDT">> >>

\* an external call's outcome: a value, or an exception
CallResults(S) == {[ok |-> FALSE, val |-> 0]} \cup {[ok |-> TRUE, val |-> v] : v \in S}

ReceiptResults == {"error", "status0", "status1"}

\* token prices for calculate_arbitrage_opportunity (any unit)
TokenPrices == {0, 1, 2, 3}

LiquidityValues == {0, 1, 6000, 20000}

ProfitValues == {0, 135, 136, 150, 170}

ConfidenceProfits == {0, 50, 100, 200}

(***************************************************************************)
(* Helpers                                                                 *)
(***************************************************************************)
Abs(x) == IF x < 0 THEN -x ELSE x

Min(x, y) == IF x < y THEN x ELSE y

Max(x, y) == IF x > y THEN x ELSE y

Range(s) == {s[k] : k \in 1..Len(s)}

NoOpp == [token_a |-> "", token_b |-> "", amount_in |-> 0, expected_profit |-> 0,
          gas_cost |-> 0, net_profit |-> 0, router1 |-> "", router2 |-> "",
          reverse_order |-> FALSE, confidence_score |-> 0]

(***************************************************************************)
(* ArbitrageMonitor                                                        *)
(***************************************************************************)
\* variant: a failed side alone becomes 0.0, the other side keeps its quote
get_current_prices_per_side(uni, sushi) ==
    <<IF uni.ok THEN uni.val ELSE 0, IF sushi.ok THEN sushi.val ELSE 0>>

\* get_current_prices: any exception in the try block gives (0.0, 0.0)
get_current_prices(uni, sushi) ==
    IF uni.ok /\ sushi.ok THEN <<uni.val, sushi.val>> ELSE <<0, 0>>

\* _estimate_gas_cost: gas_limit * gas_price, in wei
estimate_gas_cost(gas_price) == GasCostPerGwei * gas_price

\* _calculate_confidence_score, line 205: min(total / min_liquidity, 1.0), as a
\* numerator over MinLiquidity
liquidity_score(total_liquidity) == Min(total_liquidity, MinLiquidity)

\* variant: the profit score is not clamped
profit_score_unclamped(profit) == profit

\* _calculate_confidence_score, line 208: min(profit / (threshold * 1e18 * 10), 1.0),
\* as a numerator over ProfitScoreCap
profit_score(profit) == Min(profit, ProfitScoreCap)

\* _calculate_confidence_score, lines 200-213: 0.6 * liquidity_score + 0.4 * profit_score,
\* as a numerator over ConfidenceDen
calculate_confidence_score(uniswap_liquidity_a, sushiswap_liquidity_a, profit) ==
    LET total_liquidity == uniswap_liquidity_a + sushiswap_liquidity_a
    IN  6 * liquidity_score(total_liquidity) * ProfitScoreCap
        + 4 * profit_score(profit) * MinLiquidity

\* ArbitrageLogger.log_prices and line 91 of run_arbitrage_cycle divide by
\* min(uni_price, sushi_price)
log_prices_raises(prices) == Min(prices[1], prices[2]) = 0

\* variant: the guard lets a zero difference through
has_price_diff_ge(uni_price, sushi_price) == Abs(uni_price - sushi_price) >= 0

\* lines 303-304 of monitor_opportunities
has_price_diff(uni_price, sushi_price) == Abs(uni_price - sushi_price) > 0

\* line 310 of monitor_opportunities
is_profitable(expected_profit, gas_cost) == expected_profit > gas_cost

\* variant: the flag is set in both cases, as lines 148 and 154 of
\* calculate_arbitrage_opportunity do
make_opportunity_always_reverse(pair, uni_price, sushi_price, expected_profit, gas_cost) ==
    [token_a |-> pair[1], token_b |-> pair[2], amount_in |-> AmountIn,
     expected_profit |-> expected_profit, gas_cost |-> gas_cost,
     net_profit |-> expected_profit - gas_cost,
     router1 |-> "uniswap", router2 |-> "sushiswap",
     reverse_order |-> TRUE,
     confidence_score |-> MonitorConfidence]

\* lines 311-322 of monitor_opportunities
make_opportunity(pair, uni_price, sushi_price, expected_profit, gas_cost) ==
    [token_a |-> pair[1], token_b |-> pair[2], amount_in |-> AmountIn,
     expected_profit |-> expected_profit, gas_cost |-> gas_cost,
     net_profit |-> expected_profit - gas_cost,
     router1 |-> "uniswap", router2 |-> "sushiswap",
     reverse_order |-> (uni_price > sushi_price),
     confidence_score |-> MonitorConfidence]

\* one iteration of the loop of monitor_opportunities (lines 298-322):
\* kind is "raise" (ZeroDivisionError at 307 or an exception of the gas price
\* read at 308), "none" or "opp"
monitor_pair(pair, prices, gas) ==
    LET uni_price == prices[1]
        sushi_price == prices[2]
        price_diff == Abs(uni_price - sushi_price)
    IN  IF has_price_diff(uni_price, sushi_price)
        THEN IF Min(uni_price, sushi_price) = 0
             THEN [kind |-> "raise", opp |-> NoOpp]
             ELSE IF ~gas.ok
                  THEN [kind |-> "raise", opp |-> NoOpp]
                  ELSE LET expected_profit == (price_diff * AmountIn) \div Min(uni_price, sushi_price)
                           gas_cost == estimate_gas_cost(gas.val)
                       IN  IF is_profitable(expected_profit, gas_cost)
                           THEN [kind |-> "opp",
                                 opp |-> make_opportunity(pair, uni_price, sushi_price,
                                                          expected_profit, gas_cost)]
                           ELSE [kind |-> "none", opp |-> NoOpp]
        ELSE [kind |-> "none", opp |-> NoOpp]

\* calculate_arbitrage_opportunity, lines 132-133 and 141-154: the profit before
\* gas as a numerator and a denominator; the branch taken is uniswap_rate >
\* sushiswap_rate, that is ub / ua > sb / sa
calculate_profit(amount_in, ua, ub, sa, sb) ==
    IF ub * sa > sb * ua
    THEN [num |-> amount_in * (sb * ua - ub * sa), den |-> sa * ub,
          router1 |-> "sushiswap", router2 |-> "uniswap_v2", reverse_order |-> TRUE]
    ELSE [num |-> amount_in * (ub * sa - sb * ua), den |-> ua * sb,
          router1 |-> "uniswap_v2", router2 |-> "sushiswap", reverse_order |-> TRUE]

\* calculate_arbitrage_opportunity (lines 119-182) on the four prices it looks
\* up; None is kind "none".  The profit is a float in the code and is cut to
\* a whole number here only after the test of line 156.
calculate_arbitrage_opportunity(token_a, token_b, amount_in, ua, ub, sa, sb, gas_price) ==
    IF ua = 0 \/ ub = 0 \/ sa = 0 \/ sb = 0                  \* line 129
    THEN [kind |-> "none", reached_profit |-> FALSE, num |-> 0, opp |-> NoOpp]
    ELSE IF ~(ua > 0) \/ ~(sa > 0)                          \* lines 132-136
    THEN [kind |-> "none", reached_profit |-> FALSE, num |-> 0, opp |-> NoOpp]
    ELSE LET p == calculate_profit(amount_in, ua, ub, sa, sb)
             profit == p.num \div p.den
             gas_cost == estimate_gas_cost(gas_price)
             net_profit == profit - gas_cost
         IN  IF p.num <= 0                                   \* line 156
             THEN [kind |-> "none", reached_profit |-> TRUE, num |-> p.num, opp |-> NoOpp]
             ELSE IF net_profit <= 0                         \* line 165
             THEN [kind |-> "none", reached_profit |-> TRUE, num |-> p.num, opp |-> NoOpp]
             ELSE [kind |-> "opp", reached_profit |-> TRUE, num |-> p.num,
                   opp |-> [token_a |-> token_a, token_b |-> token_b, amount_in |-> amount_in,
                            expected_profit |-> profit, gas_cost |-> gas_cost,
                            net_profit |-> net_profit,
                            router1 |-> p.router1, router2 |-> p.router2,
                            reverse_order |-> p.reverse_order,
                            confidence_score |-> MonitorConfidence]]

\* variant: an Opportunity is appended for each of the two directions
append_opportunity_both_directions(opps, r) ==
    IF r.kind = "opp"
    THEN Append(Append(opps, r.opp), [r.opp EXCEPT !.reverse_order = ~r.opp.reverse_order])
    ELSE opps

\* lines 310-322 of monitor_opportunities: at most one append per iteration
append_opportunity(opps, r) == IF r.kind = "opp" THEN Append(opps, r.opp) ELSE opps

(***************************************************************************)
(* SmartContractInterface                                                  *)
(***************************************************************************)
\* check_arbitrage_opportunity: the call's value, 0 on any exception
check_arbitrage_opportunity(call) == IF call.ok THEN call.val ELSE 0

\* get_token_balance: the call's value, 0 on any exception
get_token_balance(call) == IF call.ok THEN call.val ELSE 0

\* execute_arbitrage: True only for a receipt with status 1
execute_arbitrage(receipt) == receipt = "status1"

(***************************************************************************)
(* IntegratedArbitrageBot                                                  *)
(***************************************************************************)
\* variant: the bound of the tolerance is included
validation_passes_le(expected_profit, contract_profit) ==
    ToleranceDen * Abs(expected_profit - contract_profit) <= Max(expected_profit, contract_profit)

\* variant: the difference is taken relative to the local profit
validation_passes_local_den(expected_profit, contract_profit) ==
    ToleranceDen * Abs(expected_profit - contract_profit) < expected_profit

\* variant: a contract profit of 0 is taken as "no data" and passed through
validation_passes_passthrough(expected_profit, contract_profit) ==
    \/ contract_profit = 0
    \/ ToleranceDen * Abs(expected_profit - contract_profit) < Max(expected_profit, contract_profit)

\* line 118: abs(e - c) / max(e, c) < 0.1, for max(e, c) > 0
validation_passes(expected_profit, contract_profit) ==
    ToleranceDen * Abs(expected_profit - contract_profit) < Max(expected_profit, contract_profit)

\* variant: the difference is divided by the smaller of the two profits
validation_raises_min(expected_profit, contract_profit) ==
    Min(expected_profit, contract_profit) = 0

\* line 118 divides by max(e, c)
validation_raises(expected_profit, contract_profit) ==
    Max(expected_profit, contract_profit) = 0

\* variant: the unvalidated list is returned
cycle_result_unvalidated(opps, validated) == opps

\* lines 96-98 and 124: what run_arbitrage_cycle returns
cycle_result(opps, validated) == IF opps = <<>> THEN <<>> ELSE validated

\* variant: a net profit equal to the threshold is executed too
above_execute_threshold_ge(opp) == opp.net_profit >= ExecuteThreshold

\* line 190
above_execute_threshold(opp) == opp.net_profit > ExecuteThreshold

\* variant: only an empty balance counts as insufficient
insufficient_balance_empty_only(current_balance, opp) == current_balance <= 0

\* line 151
insufficient_balance(current_balance, opp) == current_balance < opp.amount_in

\* variant: every call that reaches the receipt is counted
trades_after_every_call(trades, success) == trades + 1

\* lines 162-163
trades_after(trades, success) == IF success THEN trades + 1 ELSE trades

\* variant: the gross profit is accumulated
profit_after_gross(profit, opp, success) ==
    IF success THEN profit + opp.expected_profit ELSE profit

profit_after(profit, opp, success) == IF success THEN profit + opp.net_profit ELSE profit

\* execute_opportunity (lines 126-159) up to the moment execute_arbitrage has
\* sent its transaction: name_ok is whether line 139 evaluates, sent whether
\* lines 135-147 of execute_arbitrage build, sign and send without an exception
execute_opportunity(opp, name_ok, bal, sent) ==
    IF ~name_ok
    THEN [raised |-> TRUE, balance_read |-> FALSE, current_balance |-> 0,
          submitted |-> FALSE, sent |-> FALSE]
    ELSE LET current_balance == get_token_balance(bal)
         IN  IF insufficient_balance(current_balance, opp)
             THEN [raised |-> FALSE, balance_read |-> TRUE, current_balance |-> current_balance,
                   submitted |-> FALSE, sent |-> FALSE]
             ELSE [raised |-> FALSE, balance_read |-> TRUE, current_balance |-> current_balance,
                   submitted |-> TRUE, sent |-> sent]

\* variant: the transaction is sent and its receipt is not waited for
after_send_no_wait == "trade_sleep"

\* smart_contract_interaction.py line 152: the call blocks until the receipt
after_send == "await_receipt"

\* variant: a failed execution is raised as an error
after_result_raise_on_failure(success) == IF success THEN "trade_sleep" ELSE "except"

\* lines 191-194: run_bot discards the result and goes on to the sleep
after_result(success) == "trade_sleep"

\* variant: a max_cycles of 0 is read as "no bound"
loop_test_zero_unbounded(running, count, bound) ==
    running /\ (bound = 0 \/ count < bound)

\* line 181
loop_test(running, count, bound) == running /\ count < bound

(***************************************************************************)
(* State                                                                   *)
(***************************************************************************)
VARIABLES
    token_pairs,              \* run_bot's argument
    max_cycles,               \* run_bot's argument
    is_running,               \* self.is_running
    executed_trades,          \* self.executed_trades
    total_profit,             \* self.total_profit
    cycle_count,              \* run_bot's local
    pc,                       \* position in run_bot / run_arbitrage_cycle
    i,                        \* index of the loop at pc
    sampled,                  \* prices logged by step 1 of the current cycle
    opportunities,            \* run_arbitrage_cycle's local
    validated_opportunities,  \* run_arbitrage_cycle's local
    returned,                 \* run_bot's local "opportunities"
    last_eval,                \* history: the last iteration of monitor_opportunities
    last_valid,               \* history: the last iteration of the validation loop
    last_exec,                \* history: the last call of execute_opportunity
    passed_cycle,             \* history: opportunities whose check passed, this cycle
    check_failed_cycle,       \* history: opportunities whose check call failed, this cycle
    submitted_cycle,          \* history: opportunities submitted, this cycle
    success_count,            \* history: calls of execute_opportunity that returned True
    success_sum,              \* history: sum of net_profit over those calls
    stop_requested,           \* history: stop_bot has been called
    in_flight,                \* history: calls of execute_arbitrage that have not returned
    attempts,                 \* history: calls of execute_opportunity, this cycle
    last_sample,              \* history: the last iteration of the price logging loop
    stop_cycle,               \* history: the cycle a stop signal arrived in, 0 for none
    drained,                  \* history: the execution loop of the current cycle is over
    interrupted,              \* history: a KeyboardInterrupt was delivered
    fn_args,                  \* function harness: the arguments drawn
    fn_ret                    \* function harness: the values returned

bot_vars == <<token_pairs, max_cycles, is_running, executed_trades, total_profit, cycle_count, pc, i, sampled, opportunities,
              validated_opportunities, returned>>

hist_vars == <<last_eval, last_valid, last_exec, passed_cycle, check_failed_cycle,
               submitted_cycle, success_count, success_sum, stop_requested,
               in_flight, attempts, last_sample, stop_cycle, drained, interrupted>>

fn_vars == <<fn_args, fn_ret>>

vars == <<bot_vars, hist_vars, fn_vars>>

NoEval == [valid |-> FALSE, pair |-> <<"", "">>, quote_failed |-> FALSE,
           uni_price |-> 0, sushi_price |-> 0, kind |-> "none", opp |-> NoOpp]

NoValid == [valid |-> FALSE, opp |-> NoOpp, check_failed |-> FALSE,
            contract_profit |-> 0, raised |-> FALSE, passed |-> FALSE]

NoExec == [valid |-> FALSE, opp |-> NoOpp, raised |-> FALSE, balance_read |-> FALSE,
           current_balance |-> 0, submitted |-> FALSE, success |-> FALSE]

NoSample == [valid |-> FALSE, pair |-> <<"", "">>, quote_failed |-> FALSE,
             uni_price |-> 0, sushi_price |-> 0, raised |-> FALSE]

NoArgs == [f |-> "none", x |-> 0, y |-> 0, z |-> 0, w |-> 0]

NoRet == [done |-> FALSE, score |-> 0, reached_profit |-> FALSE, num |-> 0, pass_xy |-> FALSE, pass_yx |-> FALSE,
          raise_xy |-> FALSE, raise_yx |-> FALSE, kind |-> "none", opp |-> NoOpp]

PairLists == {SubSeq(MainTokenPairs, 1, Min(n, Len(MainTokenPairs))) : n \in 0..MaxPairs}

\* IntegratedArbitrageBot.__init__ (lines 59-67)
BotInit ==
    /\ is_running = FALSE
    /\ executed_trades = 0
    /\ total_profit = 0
    /\ cycle_count = 0
    /\ i = 1
    /\ sampled = <<>>
    /\ opportunities = <<>>
    /\ validated_opportunities = <<>>
    /\ returned = <<>>

HistInit ==
    /\ last_eval = NoEval
    /\ last_valid = NoValid
    /\ last_exec = NoExec
    /\ passed_cycle = {}
    /\ check_failed_cycle = {}
    /\ submitted_cycle = <<>>
    /\ success_count = 0
    /\ success_sum = 0
    /\ stop_requested = FALSE
    /\ in_flight = <<>>
    /\ attempts = <<>>
    /\ last_sample = NoSample
    /\ stop_cycle = 0
    /\ drained = FALSE
    /\ interrupted = FALSE

\* main (lines 216-230): the constructor returns a bot ("idle"), or
\* ArbitrageMonitor.__init__ raises ConnectionError (arbitrage_monitor.py lines
\* 52-53) and run_bot is never called ("aborted")
Init ==
    /\ token_pairs \in PairLists
    /\ max_cycles \in 0..MaxCycles
    /\ pc \in {"idle", "aborted"}
    /\ BotInit
    /\ HistInit
    /\ fn_args = NoArgs
    /\ fn_ret = NoRet

(***************************************************************************)
(* run_bot                                                                 *)
(***************************************************************************)
\* lines 172-178
RunBot ==
    /\ pc = "idle"
    /\ is_running' = TRUE
    /\ cycle_count' = 0
    /\ pc' = "loop"
    /\ UNCHANGED <<token_pairs, max_cycles, executed_trades, total_profit, i, sampled, opportunities,
                   validated_opportunities, returned>>
    /\ UNCHANGED hist_vars
    /\ UNCHANGED fn_vars

\* lines 181-183 and 75-79: the loop test holds, a cycle starts
WhileEnter ==
    /\ pc = "loop"
    /\ loop_test(is_running, cycle_count, max_cycles)
    /\ cycle_count' = cycle_count + 1
    /\ pc' = "sample"
    /\ i' = 1
    /\ sampled' = <<>>
    /\ opportunities' = <<>>
    /\ validated_opportunities' = <<>>
    /\ returned' = <<>>
    /\ passed_cycle' = {}
    /\ check_failed_cycle' = {}
    /\ submitted_cycle' = <<>>
    /\ last_eval' = NoEval
    /\ last_valid' = NoValid
    /\ last_exec' = NoExec
    /\ UNCHANGED <<token_pairs, max_cycles, is_running, executed_trades, total_profit>>
    /\ attempts' = <<>>
    /\ last_sample' = NoSample
    /\ drained' = FALSE
    /\ UNCHANGED <<success_count, success_sum, stop_requested, in_flight, stop_cycle,
                   interrupted>>
    /\ UNCHANGED fn_vars

\* line 181: the loop test fails, control falls to the finally clause
WhileExit ==
    /\ pc = "loop"
    /\ ~loop_test(is_running, cycle_count, max_cycles)
    /\ pc' = "finally"
    /\ UNCHANGED <<token_pairs, max_cycles, is_running, executed_trades, total_profit, cycle_count, i, sampled, opportunities,
                   validated_opportunities, returned>>
    /\ UNCHANGED hist_vars
    /\ UNCHANGED fn_vars

(***************************************************************************)
(* run_arbitrage_cycle                                                     *)
(***************************************************************************)
\* lines 80-91: one iteration of the price logging loop
SamplePair ==
    /\ pc = "sample"
    /\ i <= Len(token_pairs)
    /\ \E uni \in CallResults(PriceValues), sushi \in CallResults(PriceValues) :
          LET prices == get_current_prices(uni, sushi)
          IN  /\ last_sample' = [valid |-> TRUE, pair |-> token_pairs[i],
                                 quote_failed |-> ~(uni.ok /\ sushi.ok),
                                 uni_price |-> prices[1], sushi_price |-> prices[2],
                                 raised |-> log_prices_raises(prices)]
              /\ IF log_prices_raises(prices)
                 THEN /\ pc' = "except"
                      /\ UNCHANGED <<i, sampled>>
                 ELSE /\ sampled' = Append(sampled, prices)
                      /\ i' = i + 1
                      /\ pc' = "sample"
    /\ UNCHANGED <<token_pairs, max_cycles, is_running, executed_trades, total_profit, cycle_count, opportunities,
                   validated_opportunities, returned>>
    /\ UNCHANGED <<last_eval, last_valid, last_exec, passed_cycle, check_failed_cycle,
                   submitted_cycle, success_count, success_sum, stop_requested,
                   in_flight, attempts, stop_cycle, drained, interrupted>>
    /\ UNCHANGED fn_vars

\* line 94: the logging loop is over, monitor_opportunities is called
SampleDone ==
    /\ pc = "sample"
    /\ i > Len(token_pairs)
    /\ pc' = "monitor"
    /\ i' = 1
    /\ opportunities' = <<>>
    /\ UNCHANGED <<token_pairs, max_cycles, is_running, executed_trades, total_profit, cycle_count, sampled,
                   validated_opportunities, returned>>
    /\ last_sample' = NoSample
    /\ UNCHANGED <<last_eval, last_valid, last_exec, passed_cycle, check_failed_cycle,
                   submitted_cycle, success_count, success_sum, stop_requested,
                   in_flight, attempts, stop_cycle, drained, interrupted>>
    /\ UNCHANGED fn_vars

\* monitor_opportunities, lines 298-322: one iteration of its loop
MonitorPair ==
    /\ pc = "monitor"
    /\ i <= Len(token_pairs)
    /\ \E uni \in CallResults(PriceValues), sushi \in CallResults(PriceValues),
          gas \in CallResults(GasPrices) :
          LET prices == get_current_prices(uni, sushi)
              r == monitor_pair(token_pairs[i], prices, gas)
          IN  /\ last_eval' = [valid |-> TRUE, pair |-> token_pairs[i],
                               quote_failed |-> ~(uni.ok /\ sushi.ok),
                               uni_price |-> prices[1], sushi_price |-> prices[2],
                               kind |-> r.kind, opp |-> r.opp]
              /\ IF r.kind = "raise"
                 THEN /\ pc' = "except"
                      /\ UNCHANGED <<i, opportunities>>
                 ELSE /\ pc' = "monitor"
                      /\ i' = i + 1
                      /\ opportunities' = append_opportunity(opportunities, r)
    /\ UNCHANGED <<token_pairs, max_cycles, is_running, executed_trades, total_profit, cycle_count, sampled,
                   validated_opportunities, returned>>
    /\ UNCHANGED <<last_valid, last_exec, passed_cycle, check_failed_cycle,
                   submitted_cycle, success_count, success_sum, stop_requested,
                   in_flight, attempts, last_sample, stop_cycle, drained, interrupted>>
    /\ UNCHANGED fn_vars

\* lines 324 and 96-104: monitor_opportunities returns (the statistics counter
\* total_opportunities_found of line 100 is write-only and left out)
MonitorDone ==
    /\ pc = "monitor"
    /\ i > Len(token_pairs)
    /\ IF opportunities = <<>>
       THEN /\ pc' = "execute"
            /\ returned' = cycle_result(opportunities, validated_opportunities)
       ELSE /\ pc' = "validate"
            /\ UNCHANGED returned
    /\ i' = 1
    /\ validated_opportunities' = <<>>
    /\ sampled' = <<>>
    /\ last_eval' = NoEval
    /\ UNCHANGED <<token_pairs, max_cycles, is_running, executed_trades, total_profit,
                   cycle_count, opportunities>>
    /\ UNCHANGED <<last_valid, last_exec, passed_cycle, check_failed_cycle,
                   submitted_cycle, success_count, success_sum, stop_requested,
                   in_flight, attempts, last_sample, stop_cycle, drained, interrupted>>
    /\ UNCHANGED fn_vars

\* lines 105-122: one iteration of the validation loop
ValidateOpp ==
    /\ pc = "validate"
    /\ i <= Len(opportunities)
    /\ \E call \in CallResults(ContractProfits \cup {0, opportunities[i].expected_profit}) :
          LET opp == opportunities[i]
              contract_profit == check_arbitrage_opportunity(call)
              raises == validation_raises(opp.expected_profit, contract_profit)
              passes == ~raises /\ validation_passes(opp.expected_profit, contract_profit)
          IN  /\ last_valid' = [valid |-> TRUE, opp |-> opp, check_failed |-> ~call.ok,
                                contract_profit |-> contract_profit, raised |-> raises,
                                passed |-> passes]
              /\ check_failed_cycle' = IF call.ok THEN check_failed_cycle
                                       ELSE check_failed_cycle \cup {opp}
              /\ passed_cycle' = IF passes THEN passed_cycle \cup {opp} ELSE passed_cycle
              /\ IF raises
                 THEN /\ pc' = "except"
                      /\ UNCHANGED <<i, validated_opportunities>>
                 ELSE /\ pc' = "validate"
                      /\ i' = i + 1
                      /\ validated_opportunities' = IF passes
                                                    THEN Append(validated_opportunities, opp)
                                                    ELSE validated_opportunities
    /\ UNCHANGED <<token_pairs, max_cycles, is_running, executed_trades, total_profit, cycle_count, sampled, opportunities, returned>>
    /\ UNCHANGED <<last_eval, last_exec, submitted_cycle, success_count, success_sum,
                   stop_requested, in_flight, attempts, last_sample, stop_cycle, drained, interrupted>>
    /\ UNCHANGED fn_vars

\* lines 124 and 186: run_arbitrage_cycle returns to run_bot
ValidateDone ==
    /\ pc = "validate"
    /\ i > Len(opportunities)
    /\ returned' = cycle_result(opportunities, validated_opportunities)
    /\ pc' = "execute"
    /\ i' = 1
    /\ last_valid' = NoValid
    /\ UNCHANGED <<token_pairs, max_cycles, is_running, executed_trades, total_profit, cycle_count, sampled, opportunities,
                   validated_opportunities>>
    /\ UNCHANGED <<last_eval, last_exec, passed_cycle, check_failed_cycle,
                   submitted_cycle, success_count, success_sum, stop_requested,
                   in_flight, attempts, last_sample, stop_cycle, drained, interrupted>>
    /\ UNCHANGED fn_vars

(***************************************************************************)
(* run_bot: the execution loop                                             *)
(***************************************************************************)
\* lines 189-191 with execute_opportunity (126-159): one iteration of the loop
\* for an opportunity above the threshold, up to the point where
\* execute_opportunity returns or execute_arbitrage waits for its receipt
ExecuteOpp ==
    /\ pc = "execute"
    /\ i <= Len(returned)
    /\ above_execute_threshold(returned[i])
    /\ \E name_ok \in BOOLEAN, bal \in CallResults(BalanceValues), sent \in BOOLEAN :
          LET opp == returned[i]
              r == execute_opportunity(opp, name_ok, bal, sent)
          IN  /\ last_exec' = [valid |-> TRUE, opp |-> opp, raised |-> r.raised,
                               balance_read |-> r.balance_read,
                               current_balance |-> r.current_balance,
                               submitted |-> r.submitted, success |-> FALSE]
              /\ submitted_cycle' = IF r.submitted THEN Append(submitted_cycle, opp)
                                    ELSE submitted_cycle
              /\ attempts' = Append(attempts,
                                    [opp |-> opp,
                                     outcome |-> IF r.raised THEN "raised"
                                                 ELSE IF r.submitted THEN "submitted"
                                                 ELSE "insufficient"])
              /\ in_flight' = IF r.sent THEN Append(in_flight, opp) ELSE in_flight
              /\ pc' = IF r.raised THEN "except"
                       ELSE IF r.sent THEN after_send
                       ELSE after_result(FALSE)
    /\ UNCHANGED <<token_pairs, max_cycles, is_running, executed_trades, total_profit,
                   cycle_count, i, sampled, opportunities, validated_opportunities, returned>>
    /\ UNCHANGED <<last_eval, last_valid, passed_cycle, check_failed_cycle, success_count,
                   success_sum, stop_requested, last_sample, stop_cycle, drained, interrupted>>
    /\ UNCHANGED fn_vars

\* smart_contract_interaction.py lines 152-165 and lines 161-170 of
\* execute_opportunity: wait_for_transaction_receipt returns or raises, the
\* counters are updated on success
AwaitReceipt ==
    /\ pc = "await_receipt"
    /\ \E receipt \in ReceiptResults :
          LET opp == returned[i]
              success == execute_arbitrage(receipt)
          IN  /\ last_exec' = [last_exec EXCEPT !.success = success]
              /\ executed_trades' = trades_after(executed_trades, success)
              /\ total_profit' = profit_after(total_profit, opp, success)
              /\ success_count' = IF success THEN success_count + 1 ELSE success_count
              /\ success_sum' = IF success THEN success_sum + opp.net_profit ELSE success_sum
              /\ pc' = after_result(success)
    /\ in_flight' = Tail(in_flight)
    /\ UNCHANGED <<token_pairs, max_cycles, is_running,
                   cycle_count, i, sampled, opportunities, validated_opportunities, returned>>
    /\ UNCHANGED <<last_eval, last_valid, passed_cycle, check_failed_cycle, submitted_cycle,
                   stop_requested, attempts, last_sample, stop_cycle, drained, interrupted>>
    /\ UNCHANGED fn_vars

\* line 190: an opportunity at or below the threshold is passed over
SkipOpp ==
    /\ pc = "execute"
    /\ i <= Len(returned)
    /\ ~above_execute_threshold(returned[i])
    /\ i' = i + 1
    /\ UNCHANGED <<token_pairs, max_cycles, is_running, executed_trades, total_profit, cycle_count, pc, sampled, opportunities,
                   validated_opportunities, returned>>
    /\ UNCHANGED hist_vars
    /\ UNCHANGED fn_vars

\* line 194: asyncio.sleep(5) returns
TradeSleep ==
    /\ pc = "trade_sleep"
    /\ pc' = "execute"
    /\ i' = i + 1
    /\ last_exec' = NoExec
    /\ UNCHANGED <<token_pairs, max_cycles, is_running, executed_trades, total_profit, cycle_count, sampled, opportunities,
                   validated_opportunities, returned>>
    /\ UNCHANGED <<last_eval, last_valid, passed_cycle, check_failed_cycle,
                   submitted_cycle, success_count, success_sum, stop_requested,
                   in_flight, attempts, last_sample, stop_cycle, drained, interrupted>>
    /\ UNCHANGED fn_vars

\* lines 196-198: the execution loop is over, the inter-cycle sleep starts
ExecuteDone ==
    /\ pc = "execute"
    /\ i > Len(returned)
    /\ pc' = "cycle_sleep"
    /\ drained' = TRUE
    /\ UNCHANGED <<token_pairs, max_cycles, is_running, executed_trades, total_profit, cycle_count, i, sampled, opportunities,
                   validated_opportunities, returned>>
    /\ UNCHANGED <<last_eval, last_valid, last_exec, passed_cycle, check_failed_cycle,
                   submitted_cycle, success_count, success_sum, stop_requested,
                   in_flight, attempts, last_sample, stop_cycle, interrupted>>
    /\ UNCHANGED fn_vars

\* line 198: asyncio.sleep(30) returns
CycleSleep ==
    /\ pc = "cycle_sleep"
    /\ pc' = "loop"
    /\ UNCHANGED <<token_pairs, max_cycles, is_running, executed_trades, total_profit, cycle_count, i, sampled, opportunities,
                   validated_opportunities, returned>>
    /\ UNCHANGED hist_vars
    /\ UNCHANGED fn_vars

\* lines 202-203: an exception raised in the loop body is caught
Except ==
    /\ pc = "except"
    /\ pc' = "finally"
    /\ UNCHANGED <<token_pairs, max_cycles, is_running, executed_trades, total_profit, cycle_count, i, sampled, opportunities,
                   validated_opportunities, returned>>
    /\ UNCHANGED hist_vars
    /\ UNCHANGED fn_vars

\* variant: the flag is left as it is when run_bot returns
Finally_keeps_flag ==
    /\ pc = "finally"
    /\ pc' = "done"
    /\ UNCHANGED <<token_pairs, max_cycles, is_running, executed_trades, total_profit, cycle_count, i, sampled, opportunities,
                   validated_opportunities, returned>>
    /\ UNCHANGED hist_vars
    /\ UNCHANGED fn_vars

\* lines 204-209
Finally ==
    /\ pc = "finally"
    /\ is_running' = FALSE
    /\ pc' = "done"
    /\ UNCHANGED <<token_pairs, max_cycles, executed_trades, total_profit, cycle_count, i, sampled, opportunities,
                   validated_opportunities, returned>>
    /\ UNCHANGED hist_vars
    /\ UNCHANGED fn_vars

\* the positions of run_bot between the loop test and the inter-cycle sleep
InCycle == {"sample", "monitor", "validate", "execute", "await_receipt", "trade_sleep"}

\* stop_bot (lines 211-214), called by another task before run_bot starts or
\* while run_bot is suspended in one of its sleeps
StopBot ==
    /\ pc \in {"idle", "trade_sleep", "cycle_sleep"}
    /\ is_running' = FALSE
    /\ stop_requested' = TRUE
    /\ stop_cycle' = IF pc \in InCycle /\ stop_cycle = 0 THEN cycle_count ELSE stop_cycle
    /\ UNCHANGED <<token_pairs, max_cycles, executed_trades, total_profit, cycle_count, pc, i, sampled, opportunities,
                   validated_opportunities, returned>>
    /\ UNCHANGED <<last_eval, last_valid, last_exec, passed_cycle, check_failed_cycle,
                   submitted_cycle, success_count, success_sum,
                   in_flight, attempts, last_sample, drained, interrupted>>
    /\ UNCHANGED fn_vars

\* lines 200-201: the user's interrupt (Ctrl-C) reaches run_bot while it is in
\* its try block, as KeyboardInterrupt or as the cancellation asyncio.run turns
\* it into; either way control leaves the loop for the finally clause
Interrupt ==
    /\ pc \in InCycle \cup {"loop", "cycle_sleep"}
    /\ pc' = "finally"
    /\ interrupted' = TRUE
    /\ stop_cycle' = IF pc \in InCycle /\ stop_cycle = 0 THEN cycle_count ELSE stop_cycle
    /\ in_flight' = <<>>
    /\ last_sample' = NoSample
    /\ last_eval' = NoEval
    /\ last_valid' = NoValid
    /\ last_exec' = NoExec
    /\ UNCHANGED <<token_pairs, max_cycles, is_running, executed_trades, total_profit, cycle_count, i, sampled, opportunities,
                   validated_opportunities, returned>>
    /\ UNCHANGED <<passed_cycle, check_failed_cycle, submitted_cycle, success_count,
                   success_sum, stop_requested, attempts, drained>>
    /\ UNCHANGED fn_vars

Next ==
    \/ RunBot
    \/ WhileEnter
    \/ WhileExit
    \/ SamplePair
    \/ SampleDone
    \/ MonitorPair
    \/ MonitorDone
    \/ ValidateOpp
    \/ ValidateDone
    \/ ExecuteOpp
    \/ AwaitReceipt
    \/ SkipOpp
    \/ TradeSleep
    \/ ExecuteDone
    \/ CycleSleep
    \/ Except
    \/ Finally
    \/ StopBot
    \/ Interrupt

Spec == Init /\ [][Next]_vars

TypeOK ==
    /\ is_running \in BOOLEAN
    /\ executed_trades \in Nat
    /\ total_profit \in Nat
    /\ cycle_count \in 0..MaxCycles
    /\ pc \in {"idle", "aborted", "loop", "sample", "monitor", "validate", "execute",
               "await_receipt", "trade_sleep", "cycle_sleep", "except", "finally", "done"}
    /\ stop_cycle \in 0..MaxCycles
    /\ Len(in_flight) <= Len(returned)

(***************************************************************************)
(* The functions on their own: arguments drawn, one call each              *)
(***************************************************************************)
FnInputs ==
    {[f |-> "validate", x |-> x, y |-> y, z |-> 0, w |-> 0] :
             x \in ProfitValues, y \in ProfitValues}
    \cup {[f |-> "confidence", x |-> x, y |-> y, z |-> z, w |-> 0] :
             x \in LiquidityValues, y \in LiquidityValues, z \in ConfidenceProfits}
    \cup {[f |-> "monitor", x |-> x, y |-> y, z |-> z, w |-> 0] :
             x \in PriceValues, y \in PriceValues, z \in GasPrices}
    \cup {[f |-> "calculate", x |-> x, y |-> y, z |-> z, w |-> w] :
             x \in TokenPrices, y \in TokenPrices, z \in TokenPrices, w \in TokenPrices}

FnInit ==
    /\ token_pairs = <<>>
    /\ max_cycles = 0
    /\ pc = "idle"
    /\ BotInit
    /\ HistInit
    /\ fn_args \in FnInputs
    /\ fn_ret = NoRet

\* the test of line 118 on (x, y) and on (y, x)
CallValidate ==
    /\ fn_args.f = "validate"
    /\ ~fn_ret.done
    /\ fn_ret' = [NoRet EXCEPT !.done = TRUE,
                    !.raise_xy = validation_raises(fn_args.x, fn_args.y),
                    !.raise_yx = validation_raises(fn_args.y, fn_args.x),
                    !.pass_xy = (~validation_raises(fn_args.x, fn_args.y)
                                 /\ validation_passes(fn_args.x, fn_args.y)),
                    !.pass_yx = (~validation_raises(fn_args.y, fn_args.x)
                                 /\ validation_passes(fn_args.y, fn_args.x))]
    /\ UNCHANGED <<bot_vars, hist_vars, fn_args>>

\* _calculate_confidence_score on drawn liquidities and profit
CallConfidence ==
    /\ fn_args.f = "confidence"
    /\ ~fn_ret.done
    /\ fn_ret' = [NoRet EXCEPT !.done = TRUE,
                    !.score = calculate_confidence_score(fn_args.x, fn_args.y, fn_args.z)]
    /\ UNCHANGED <<bot_vars, hist_vars, fn_args>>

\* one iteration of monitor_opportunities on drawn prices and gas price
CallMonitorPair ==
    /\ fn_args.f = "monitor"
    /\ ~fn_ret.done
    /\ LET r == monitor_pair(MainTokenPairs[1], <<fn_args.x, fn_args.y>>,
                             [ok |-> TRUE, val |-> fn_args.z])
       IN  fn_ret' = [NoRet EXCEPT !.done = TRUE, !.kind = r.kind, !.opp = r.opp,
                        !.score = r.opp.confidence_score]
    /\ UNCHANGED <<bot_vars, hist_vars, fn_args>>

\* calculate_arbitrage_opportunity on four drawn prices: x and y are the
\* Uniswap prices of token_a and token_b, z and w the SushiSwap ones
CallCalculate ==
    /\ fn_args.f = "calculate"
    /\ ~fn_ret.done
    /\ \E gas_price \in GasPrices :
          LET r == calculate_arbitrage_opportunity(MainTokenPairs[1][1], MainTokenPairs[1][2],
                                                   AmountIn, fn_args.x, fn_args.y,
                                                   fn_args.z, fn_args.w, gas_price)
          IN  fn_ret' = [NoRet EXCEPT !.done = TRUE, !.kind = r.kind, !.opp = r.opp,
                           !.reached_profit = r.reached_profit, !.num = r.num]
    /\ UNCHANGED <<bot_vars, hist_vars, fn_args>>

FnNext ==
    \/ CallValidate
    \/ CallConfidence
    \/ CallMonitorPair
    \/ CallCalculate

SpecFn == FnInit /\ [][FnNext]_vars

(***************************************************************************)
(* Properties                                                              *)
(***************************************************************************)

\* C1: when the balance execute_opportunity reads for token_a is below
\* amount_in, the call returns False without raising and makes no submission
\* for that opportunity.
C1_NoSubmissionOnInsufficientBalance ==
    (last_exec.valid /\ last_exec.balance_read
        /\ last_exec.current_balance < last_exec.opp.amount_in)
    => /\ ~last_exec.raised
       /\ ~last_exec.success
       /\ ~last_exec.submitted
       /\ last_exec.opp \notin Range(submitted_cycle)

C1_Witness ==
    /\ last_exec.valid
    /\ last_exec.balance_read
    /\ last_exec.current_balance = 5000
    /\ last_exec.opp.amount_in = AmountIn
    /\ ~last_exec.submitted

\* C2: executed_trades is the number of execute_opportunity calls that
\* returned True and total_profit is the sum of net_profit over those calls;
\* failed calls change neither.
C2_CountersTrackSuccesses ==
    /\ executed_trades = success_count
    /\ total_profit = success_sum

C2_Witness ==
    /\ executed_trades = 2
    /\ total_profit = 296
    /\ last_exec.valid
    /\ ~last_exec.success

\* C3: every opportunity submitted for execution passed, earlier in the same
\* cycle, the check against the contract's profit; one that failed it is not
\* submitted.
C3_SubmittedWereValidated ==
    /\ Range(submitted_cycle) \subseteq passed_cycle
    /\ (pc \in {"execute", "trade_sleep"} => Range(returned) \subseteq passed_cycle)
    /\ (last_exec.valid /\ last_exec.submitted => last_exec.opp \in passed_cycle)

C3_Witness ==
    /\ submitted_cycle # <<>>
    /\ Len(opportunities) = 2
    /\ Len(validated_opportunities) = 1
    /\ last_exec.valid
    /\ last_exec.submitted

\* C4 (as claimed): every Opportunity has net_profit = expected_profit - gas_cost
\* and net_profit at least the minimum profit threshold.
C4_NetProfitAtLeastThreshold ==
    \A k \in 1..Len(opportunities) :
        /\ opportunities[k].net_profit
             = opportunities[k].expected_profit - opportunities[k].gas_cost
        /\ opportunities[k].net_profit >= MinProfitThreshold

\* C5: a snapshot whose quote failed is discarded: the iteration ends without
\* an Opportunity for the pair and without an error.
C5_FailedQuoteGivesNoOpportunity ==
    (last_eval.valid /\ last_eval.quote_failed)
    => /\ last_eval.kind = "none"
       /\ \A k \in 1..Len(opportunities) :
             <<opportunities[k].token_a, opportunities[k].token_b>> # last_eval.pair

C5_Witness ==
    /\ last_eval.valid
    /\ last_eval.quote_failed
    /\ last_eval.pair = MainTokenPairs[2]
    /\ Len(opportunities) = 1

\* C6: a snapshot with two equal prices gives no Opportunity.
C6_EqualPricesGiveNoOpportunity ==
    (last_eval.valid /\ last_eval.uni_price = last_eval.sushi_price)
    => /\ last_eval.kind = "none"
       /\ \A k \in 1..Len(opportunities) :
             <<opportunities[k].token_a, opportunities[k].token_b>> # last_eval.pair

C6_Witness ==
    /\ last_eval.valid
    /\ ~last_eval.quote_failed
    /\ last_eval.uni_price = 2000
    /\ last_eval.sushi_price = 2000
    /\ last_eval.kind = "none"

\* |l - a| / max(l, a) < 1/10, for l > 0 and a >= 0
WithinTolerance(l, a) ==
    IF l >= a THEN 10 * (l - a) < l ELSE 10 * (a - l) < a

\* C7: validation accepts an opportunity exactly when
\* |local - authoritative| / max(local, authoritative) < 0.10, local being the
\* opportunity's expected_profit; local 0.015 against authoritative 0.017 is
\* rejected.
C7_AcceptsIffWithinTolerance ==
    last_valid.valid
    => /\ ~last_valid.raised
       /\ last_valid.passed
            <=> WithinTolerance(last_valid.opp.expected_profit, last_valid.contract_profit)
       /\ last_valid.passed <=> (last_valid.opp \in Range(validated_opportunities))
       /\ (last_valid.opp.expected_profit = 150 /\ last_valid.contract_profit = 170)
            => last_valid.opp \notin Range(validated_opportunities)

C7_Witness ==
    /\ last_valid.valid
    /\ last_valid.opp.expected_profit = 150
    /\ last_valid.contract_profit = 170
    /\ ~last_valid.passed
    /\ last_valid.opp \notin Range(validated_opportunities)

\* C8: the tolerance test gives the same outcome for (local, authoritative) =
\* (x, y) as for (y, x).
C8_ValidationSymmetric ==
    (fn_ret.done /\ fn_args.f = "validate")
    => /\ fn_ret.pass_xy = fn_ret.pass_yx
       /\ fn_ret.raise_xy = fn_ret.raise_yx

C8_Witness ==
    /\ fn_ret.done
    /\ fn_args.f = "validate"
    /\ fn_args.x = 150
    /\ fn_args.y = 136
    /\ fn_ret.pass_xy
    /\ fn_ret.pass_yx

\* C9: when the contract's check call fails, the opportunity does not pass
\* validation, is neither returned nor submitted, and the validation loop
\* goes on.
C9_FailedCheckIsValidationFailure ==
    /\ (last_valid.valid /\ last_valid.check_failed)
       => /\ ~last_valid.passed
          /\ ~last_valid.raised
          /\ pc = "validate"
    /\ \A o \in check_failed_cycle :
          /\ o \notin Range(validated_opportunities)
          /\ o \notin Range(returned)
          /\ o \notin Range(submitted_cycle)

C9_Witness ==
    /\ check_failed_cycle # {}
    /\ Len(opportunities) = 2
    /\ opportunities[1] \in check_failed_cycle
    /\ submitted_cycle = <<opportunities[2]>>

\* C10: for non-negative liquidities and profit the confidence score is
\* 0.6 * liquidity_score + 0.4 * profit_score with both scores in [0, 1], hence
\* in [0, 1]; so is the score of every Opportunity of monitor_opportunities.
C10_ConfidenceInUnitInterval ==
    /\ (fn_ret.done /\ fn_args.f = "confidence")
       => /\ fn_ret.score >= 0
          /\ fn_ret.score <= ConfidenceDen
          /\ LET l == IF fn_args.x + fn_args.y >= MinLiquidity
                       THEN MinLiquidity ELSE fn_args.x + fn_args.y
                 p == IF fn_args.z >= ProfitScoreCap THEN ProfitScoreCap ELSE fn_args.z
             IN  /\ 0 <= l /\ l <= MinLiquidity
                 /\ 0 <= p /\ p <= ProfitScoreCap
                 /\ fn_ret.score = 6 * l * ProfitScoreCap + 4 * p * MinLiquidity
    /\ (fn_ret.done /\ fn_args.f = "monitor" /\ fn_ret.kind = "opp")
       => (fn_ret.score >= 0 /\ fn_ret.score <= ConfidenceDen)

C10_Witness ==
    /\ fn_ret.done
    /\ fn_args.f = "confidence"
    /\ fn_args.x + fn_args.y > MinLiquidity
    /\ fn_args.z > ProfitScoreCap
    /\ fn_ret.score = ConfidenceDen

\* the positions at which run_bot is between its first and its last statement
Running == {"loop", "sample", "monitor", "validate", "execute", "await_receipt",
            "trade_sleep", "cycle_sleep", "except", "finally"}

\* a measure of what run_bot still has to do: the cycles left, then the stage
\* of the current cycle, then the iterations left in the loop of that stage
RunBotRank ==
    IF pc = "idle" THEN (max_cycles + 1) * 100
    ELSE IF pc \in {"done", "aborted"} THEN 0
    ELSE IF pc = "finally" THEN 1
    ELSE IF pc = "except" THEN 2
    ELSE (max_cycles - cycle_count) * 100
         + CASE pc = "loop" -> 3
             [] pc = "cycle_sleep" -> 4
             [] pc = "trade_sleep" -> 10 + 3 * (Len(returned) + 1 - i)
             [] pc = "await_receipt" -> 11 + 3 * (Len(returned) + 1 - i)
             [] pc = "execute" -> 12 + 3 * (Len(returned) + 1 - i)
             [] pc = "validate" -> 30 + (Len(opportunities) + 1 - i)
             [] pc = "monitor" -> 40 + (Len(token_pairs) + 1 - i)
             [] pc = "sample" -> 50 + (Len(token_pairs) + 1 - i)

\* C11: run_bot sets is_running on start and has cleared it whenever it has
\* returned, whatever the exit path (stop, max_cycles exhausted, error or
\* interrupt); it never runs more than max_cycles cycles; and every step it
\* takes strictly decreases a non-negative measure, so that it returns after
\* finitely many steps when each step (each external call) returns.
C11_RunBotReturnsToIdle ==
    /\ [](pc = "done" => ~is_running)
    /\ []((pc \in Running \ {"finally"} /\ ~stop_requested) => is_running)
    /\ [](cycle_count <= max_cycles)
    /\ [](RunBotRank >= 0)
    /\ [][(pc' = pc /\ i' = i) \/ RunBotRank' < RunBotRank]_vars
    /\ [][(pc' = pc /\ i' = i) => (pc \in {"idle", "trade_sleep", "cycle_sleep"}
                                    /\ stop_cycle' >= stop_cycle
                                    /\ (stop_requested' /\ ~is_running'))]_vars

C11_Witness ==
    /\ pc = "done"
    /\ ~is_running
    /\ max_cycles = 2
    /\ cycle_count = 2
    /\ ~stop_requested
    /\ ~interrupted

\* an exception has left the body of the current cycle
Errored ==
    \/ last_sample.raised
    \/ last_eval.kind = "raise"
    \/ last_valid.raised
    \/ last_exec.raised

Executed(k) ==
    \E n \in 1..Len(attempts) :
        attempts[n].opp = returned[k] /\ attempts[n].outcome # "raised"

\* C13: when a stop signal (stop_bot or the user's interrupt) arrives in the
\* middle of a cycle and run_bot has then left its loop, that cycle was run to
\* its end: its execution loop is over, every opportunity of its result above
\* the threshold was executed, and no later cycle was started.
C13_StopDrainsCycle ==
    (stop_cycle > 0 /\ pc \in {"finally", "done"})
    => /\ drained
       /\ cycle_count = stop_cycle
       /\ \A k \in 1..Len(returned) : above_execute_threshold(returned[k]) => Executed(k)

\* C14: a quote that fails for a pair neither aborts the cycle nor stops the
\* driver: after the failed quote the loop that asked for it is still running
\* (it goes on to the remaining pairs) and no exception has left the cycle.
C14_QuoteFailureDoesNotAbort ==
    /\ (last_sample.valid /\ last_sample.quote_failed)
       => (pc = "sample" /\ ~last_sample.raised)
    /\ (last_eval.valid /\ last_eval.quote_failed)
       => (pc = "monitor" /\ last_eval.kind # "raise")

\* C15: a failed quote is never reported to the caller as a price of zero.
C15_FailedQuoteNeverZero ==
    /\ (last_sample.valid /\ last_sample.quote_failed)
       => (last_sample.uni_price # 0 /\ last_sample.sushi_price # 0)
    /\ (last_eval.valid /\ last_eval.quote_failed)
       => (last_eval.uni_price # 0 /\ last_eval.sushi_price # 0)

\* C16: on a fatal startup condition (the connection cannot be established, or
\* the token-pair list is empty) no cycle runs: run_bot never enters its loop
\* body, so there is no sampling, validation or execution step.
C16_FatalStartupRunsNoCycle ==
    /\ pc = "aborted" => (cycle_count = 0 /\ ~is_running)
    /\ token_pairs = <<>> => (cycle_count = 0 /\ pc \notin InCycle \cup {"cycle_sleep"})

\* C17: every opportunity execute_opportunity was called for in this cycle is
\* one the cycle validated and returned, with a net_profit strictly above
\* ExecuteThreshold (10^15 wei); one at or below it is never executed.
C17_ExecutedOnlyAboveThreshold ==
    /\ \A n \in 1..Len(attempts) :
          /\ attempts[n].opp.net_profit > ExecuteThreshold
          /\ attempts[n].opp \in passed_cycle
          /\ \E k \in 1..Len(returned) : returned[k] = attempts[n].opp
    /\ last_exec.valid => last_exec.opp.net_profit > ExecuteThreshold
    /\ \A k \in 1..Len(returned) :
          returned[k].net_profit <= ExecuteThreshold
          => \A n \in 1..Len(attempts) : attempts[n].opp # returned[k]

C17_Witness ==
    /\ pc = "cycle_sleep"
    /\ Len(returned) = 2
    /\ returned[1].net_profit = ExecuteThreshold
    /\ returned[2].net_profit > ExecuteThreshold
    /\ Len(attempts) = 1
    /\ attempts[1].opp = returned[2]
    /\ attempts[1].outcome = "submitted"

\* C18: once the execution loop of a cycle has been left (its end reached, or
\* the loop abandoned), every opportunity of the cycle's result with a
\* net_profit above the threshold has gone through execute_opportunity, and
\* unless the balance read there was below amount_in it was submitted, exactly
\* once.
C18_QualifyingOppSubmittedOnce ==
    (pc \in {"cycle_sleep", "finally", "done"} /\ cycle_count > 0 /\ ~interrupted
        /\ ~last_sample.raised /\ last_eval.kind # "raise" /\ ~last_valid.raised)
    => \A k \in 1..Len(returned) :
          above_execute_threshold(returned[k])
          => /\ \E n \in 1..Len(attempts) :
                   /\ attempts[n].opp = returned[k]
                   /\ attempts[n].outcome \in {"submitted", "insufficient"}
             /\ Cardinality({n \in 1..Len(submitted_cycle) : submitted_cycle[n] = returned[k]})
                    <= Cardinality({m \in 1..Len(returned) : returned[m] = returned[k]})

\* C19: a submission that fails (execute_arbitrage returns False) is not
\* retried and does not stop the cycle: no opportunity is submitted twice in a
\* cycle, and when a failed submission has returned run_bot is at the sleep
\* that precedes the next opportunity, exactly as after a successful one, with
\* is_running untouched.
C19_FailedExecutionNotRetried ==
    /\ \A n, m \in 1..Len(submitted_cycle) :
          n # m => submitted_cycle[n] # submitted_cycle[m]
    /\ Len(attempts) <= Len(returned)
    /\ (last_exec.valid /\ last_exec.submitted /\ ~last_exec.success /\ in_flight = <<>>)
       => /\ pc = "trade_sleep"
          /\ is_running \/ stop_requested
          /\ attempts[Len(attempts)].opp = returned[i]

C19_Witness ==
    /\ cycle_count = 1
    /\ pc = "trade_sleep"
    /\ Len(submitted_cycle) = 2
    /\ executed_trades = 1
    /\ last_exec.valid
    /\ last_exec.success
    /\ last_exec.opp = returned[2]

\* C20: submissions are serialized. At most one call of execute_arbitrage is
\* in flight; while one is, run_bot is waiting for its receipt and for nothing
\* else; and the next iteration of the execution loop starts only when none is.
C20_SubmissionsSerialized ==
    /\ Len(in_flight) <= 1
    /\ in_flight # <<>> => (pc = "await_receipt" /\ in_flight = <<returned[i]>>)
    /\ pc = "await_receipt" => (in_flight # <<>> /\ last_exec.submitted)
    /\ pc \in {"execute", "trade_sleep", "cycle_sleep", "loop"} => in_flight = <<>>

C20_Witness ==
    /\ pc = "await_receipt"
    /\ i = 2
    /\ Len(submitted_cycle) = 2
    /\ in_flight = <<returned[2]>>
    /\ attempts[1].outcome = "submitted"

\* C21: monitor_opportunities appends at most one Opportunity per pair it has
\* gone through, each for that pair, so a cycle never has more opportunities
\* (found, validated or returned) than there are configured pairs.
C21_AtMostOneOpportunityPerPair ==
    /\ Len(opportunities) <= Len(token_pairs)
    /\ pc = "monitor" => Len(opportunities) <= i - 1
    /\ Len(validated_opportunities) <= Len(opportunities)
    /\ Len(returned) <= Len(token_pairs)
    /\ \A n \in 1..Len(opportunities) :
          /\ \E k \in 1..Len(token_pairs) :
                token_pairs[k] = <<opportunities[n].token_a, opportunities[n].token_b>>
          /\ \A m \in 1..Len(opportunities) :
                (m # n) => <<opportunities[m].token_a, opportunities[m].token_b>>
                           # <<opportunities[n].token_a, opportunities[n].token_b>>

C21_Witness ==
    /\ pc = "validate"
    /\ Len(token_pairs) = 2
    /\ Len(opportunities) = 2
    /\ opportunities[1].token_b = "USDC"
    /\ opportunities[2].token_b = "USDT"

\* the source an Opportunity buys on: router1, or router2 when the order is
\* reversed
BuySource(opp) == IF opp.reverse_order THEN opp.router2 ELSE opp.router1

\* C22: every Opportunity of monitor_opportunities comes from two different
\* prices, names uniswap as source 1 and sushiswap as source 2, and carries
\* reverse_order = (uni_price > sushi_price): the buy source is source 1 when
\* the Uniswap price is the lower one and source 2 when it is the higher one.
\* The opportunity validated or executed is one of those, flag included.
C22_LowerPriceIsBuySide ==
    /\ (last_eval.valid /\ last_eval.kind = "opp")
       => /\ last_eval.uni_price # last_eval.sushi_price
          /\ last_eval.opp.router1 = "uniswap"
          /\ last_eval.opp.router2 = "sushiswap"
          /\ last_eval.opp.reverse_order = (last_eval.uni_price > last_eval.sushi_price)
          /\ last_eval.uni_price < last_eval.sushi_price
             => BuySource(last_eval.opp) = "uniswap"
          /\ last_eval.uni_price > last_eval.sushi_price
             => BuySource(last_eval.opp) = "sushiswap"
          /\ opportunities[Len(opportunities)] = last_eval.opp
    /\ last_valid.valid => last_valid.opp \in Range(opportunities)
    /\ last_exec.valid => last_exec.opp \in Range(opportunities)

C22_Witness ==
    /\ pc = "monitor"
    /\ last_eval.valid
    /\ last_eval.uni_price = 2000
    /\ last_eval.sushi_price = 2030
    /\ Len(opportunities) = 2
    /\ BuySource(opportunities[1]) = "sushiswap"
    /\ BuySource(opportunities[2]) = "uniswap"

\* C23: a step changes executed_trades or total_profit only if it is the
\* return of a successful execute_opportunity, which adds 1 and the
\* opportunity's net_profit; every other step (sampling, evaluation,
\* validation, the sleeps, stop_bot, the interrupt) leaves both unchanged.
C23_CountersChangedOnlyBySuccess ==
    [][(executed_trades' # executed_trades \/ total_profit' # total_profit)
       => /\ pc = "await_receipt"
          /\ last_exec'.valid
          /\ last_exec'.success
          /\ executed_trades' = executed_trades + 1
          /\ total_profit' = total_profit + returned[i].net_profit]_vars

C23_Witness ==
    /\ pc = "cycle_sleep"
    /\ cycle_count = 2
    /\ attempts = <<>>
    /\ opportunities # <<>>
    /\ stop_requested
    /\ executed_trades = 1
    /\ total_profit = 148

\* C24: a snapshot with a price <= 0 is rejected quietly: the price reporting
\* of step 1 does not raise on it, and monitor_opportunities gives no
\* Opportunity for it and does not raise either.
C24_NonPositivePriceRejectedQuietly ==
    /\ (last_sample.valid /\ (last_sample.uni_price <= 0 \/ last_sample.sushi_price <= 0))
       => ~last_sample.raised
    /\ (last_eval.valid /\ (last_eval.uni_price <= 0 \/ last_eval.sushi_price <= 0))
       => last_eval.kind = "none"

\* C25: for four positive prices whose Uniswap and SushiSwap exchange rates
\* differ, the profit calculate_arbitrage_opportunity computes before gas is
\* strictly positive, so the call gets past the test of line 156.
C25_ProfitPositiveWhenRatesDiffer ==
    (/\ fn_ret.done
     /\ fn_args.f = "calculate"
     /\ fn_args.x > 0 /\ fn_args.y > 0 /\ fn_args.z > 0 /\ fn_args.w > 0
     /\ fn_args.y * fn_args.z # fn_args.w * fn_args.x)
    => (fn_ret.reached_profit /\ fn_ret.num > 0)

\* C26: every Opportunity has expected_profit > gas_cost >= 0, so whatever
\* profit >= 0 the contract check returns (0 when the check fails), the
\* denominator max(expected_profit, contract_profit) of line 118 is strictly
\* positive and the validation never raises.
C26_ValidationDenominatorPositive ==
    /\ \A n \in 1..Len(opportunities) :
          /\ opportunities[n].gas_cost >= 0
          /\ opportunities[n].expected_profit > opportunities[n].gas_cost
    /\ last_valid.valid
       => /\ last_valid.contract_profit >= 0
          /\ Max(last_valid.opp.expected_profit, last_valid.contract_profit) > 0
          /\ ~last_valid.raised
          /\ pc = "validate"

C26_Witness ==
    /\ last_valid.valid
    /\ last_valid.check_failed
    /\ last_valid.contract_profit = 0
    /\ last_valid.opp.expected_profit > 0
    /\ ~last_valid.passed
    /\ i = 2

\* the position of a pair in the configured list
PairIndex(pair) == CHOOSE k \in 1..Len(token_pairs) : token_pairs[k] = pair

\* C27: the prices monitor_opportunities evaluates for a pair are the prices
\* sampled and logged for that pair in step 1 of the same cycle.
C27_EvaluatedPricesAreSampledPrices ==
    (last_eval.valid /\ last_eval.kind = "opp")
    => /\ PairIndex(last_eval.pair) <= Len(sampled)
       /\ sampled[PairIndex(last_eval.pair)] = <<last_eval.uni_price, last_eval.sushi_price>>

\* C28: once stop_bot has been called, before run_bot starts or at any later
\* point, run_bot starts no cycle.
C28_StopIsNeverLost ==
    [][stop_requested => ~(pc = "loop" /\ pc' = "sample")]_vars

=============================================================================
